---- MODULE Spec2Model ----
(***************************************************************************)
(* Model of run-eval.mjs: the eval runner that submits an eval, polls the  *)
(* batch status endpoint until every batch of the job is finished, fetches *)
(* the detailed results and renders a markdown report.                     *)
(*                                                                         *)
(* JavaScript values read from API responses are tagged records, so that   *)
(* undefined, null, 0, "" and false stay distinguishable:                  *)
(*   [t |-> "undef"], [t |-> "null"], [t |-> "num", n |-> 3],              *)
(*   [t |-> "str", s |-> "abc"], [t |-> "bool", b |-> TRUE],               *)
(*   [t |-> "arr", a |-> <<1, 2>>]   (a JSON array of numbers)             *)
(* Costs are integers counting 1/100000 of a dollar.                       *)
(***************************************************************************)
EXTENDS Integers, Sequences, FiniteSets, TLC

VARIABLES
    TRAVRSE_API_KEY,     \* process.env.TRAVRSE_API_KEY
    TV_API_KEY,          \* process.env.TV_API_KEY
    POLL_INTERVAL_MS,    \* parsed poll interval
    MAX_WAIT_MS,         \* parsed poll deadline
    pc,                  \* position of main(): the await it is suspended at
    exitCode,            \* <<>> while the process runs, <<c>> once it has ended
    exitReason,          \* which path ended the process
    now,                 \* Date.now()
    startTime,           \* startTime of main, taken after the submit
    submissions,         \* submitResponse.submissions (normalized)
    completedBatches,    \* what pollForCompletion returned
    fetchIdx,            \* index of the batch the fetch loop is at
    detailedResults,     \* detailedResults of main
    detailedResultsMap,  \* detailedResultsMap of main: batch id |-> results
    summaryRows,         \* the rows of the rendered summary table
    fileContent,         \* <<>> or <<sections written to the output file>>
    displayed,           \* result sets printed to the console
    fileWrites,          \* number of writeFileSync calls on the output file
    configReads,         \* number of readFileSync calls on the config file
    submitCalls,         \* number of POST /eval/submit requests
    statusCalls,         \* number of GET /eval/batches requests
    fetchLog,            \* outcome of the fetch loop for each batch, in order
    pollErrors,          \* number of poll iterations whose status call threw
    neverSeen,           \* target ids absent from every status response so far
    results,             \* input of calculateTotalCost
    total,               \* <<>> or <<value returned by calculateTotalCost>>
    step,                \* a step result whose output preview is rendered
    preview,             \* <<>> or <<value returned by truncateText>>
    batch,               \* a batch rendered as a summary row
    row,                 \* <<>> or <<the summary row rendered for batch>>
    TRAVRSE_API_URL,     \* process.env.TRAVRSE_API_URL
    API_BASE_URL,        \* <<>> until the module has loaded, then <<base URL>>
    operation,           \* the API operation that is called
    responseBody,        \* the body the server answers that call with
    returned,            \* <<>> or <<value the operation returned>>
    resultSet,           \* a result set rendered in detail
    markdown,            \* <<>> or <<generateDetailedResultsMarkdown(resultSet)>>
    logged               \* the arguments of console.log, call by call

mainVars == <<TRAVRSE_API_KEY, TV_API_KEY, POLL_INTERVAL_MS, MAX_WAIT_MS, pc,
              exitCode, exitReason, now, startTime, submissions,
              completedBatches, fetchIdx, detailedResults, detailedResultsMap,
              summaryRows, fileContent, displayed, fileWrites, configReads,
              submitCalls, statusCalls, fetchLog, pollErrors, neverSeen>>
costVars == <<results, total>>
truncVars == <<step, preview>>
rowVars == <<batch, row>>
clientVars == <<TRAVRSE_API_URL, API_BASE_URL, operation, responseBody, returned>>
detailVars == <<resultSet, markdown, logged>>
pureVars == <<costVars, truncVars, rowVars, clientVars, detailVars>>
vars == <<mainVars, pureVars>>

----------------------------------------------------------------------------
(* Bounds of the model *)

MaxPollInterval == 2   \* POLL_INTERVAL_MS ranges over 1..MaxPollInterval
MaxWait == 2           \* MAX_WAIT_MS ranges over 0..MaxWait
MaxCallTime == 1       \* a status call takes 0..MaxCallTime
MaxBatches == 2        \* batches in one status response
MaxRecords == 2        \* records of a result set given to calculateTotalCost
MaxSteps == 2          \* step results of one record
MaxTextLen == 42       \* length of an output text
MaxArrayLen == 21      \* elements of a JSON array used as non-text output

----------------------------------------------------------------------------
(* JavaScript values *)

Undef == [t |-> "undef"]
JNull == [t |-> "null"]
Num(n) == [t |-> "num", n |-> n]
Str(s) == [t |-> "str", s |-> s]
Bool(b) == [t |-> "bool", b |-> b]
Arr(a) == [t |-> "arr", a |-> a]

\* JavaScript truthiness: what `!x`, `a || b` and `if (x)` test
Truthy(v) ==
    CASE v.t = "undef" -> FALSE
      [] v.t = "null" -> FALSE
      [] v.t = "num" -> v.n # 0
      [] v.t = "str" -> v.s # ""
      [] v.t = "bool" -> v.b
      [] OTHER -> TRUE

\* a || b
Or(a, b) == IF Truthy(a) THEN a ELSE b

\* x !== null && x !== undefined
Present(v) == v.t \notin {"undef", "null"}

RECURSIVE JoinNumbers(_)
JoinNumbers(a) ==
    IF Len(a) = 0 THEN ""
    ELSE IF Len(a) = 1 THEN ToString(a[1])
    ELSE ToString(a[1]) \o "," \o JoinNumbers(Tail(a))

\* JSON.stringify on a value parsed from a JSON response
JSONstringify(v) ==
    CASE v.t = "num" -> ToString(v.n)
      [] v.t = "bool" -> IF v.b THEN "true" ELSE "false"
      [] v.t = "null" -> "null"
      [] v.t = "str" -> "\"" \o v.s \o "\""
      [] v.t = "arr" -> "[" \o JoinNumbers(v.a) \o "]"

\* `${v}` in a template literal
Template(v) ==
    CASE v.t = "undef" -> "undefined"
      [] v.t = "null" -> "null"
      [] v.t = "num" -> ToString(v.n)
      [] v.t = "str" -> v.s
      [] v.t = "bool" -> IF v.b THEN "true" ELSE "false"
      [] v.t = "arr" -> JoinNumbers(v.a)

----------------------------------------------------------------------------
(* Utility functions *)

\* the four decimals of toFixed(4)
Decimals4(n) ==
    IF n < 10 THEN "000" \o ToString(n)
    ELSE IF n < 100 THEN "00" \o ToString(n)
    ELSE IF n < 1000 THEN "0" \o ToString(n)
    ELSE ToString(n)

\* a cost rendered in cents: cost.toFixed(2)
formatCostInCents(cost) ==
    IF ~Present(cost) THEN "N/A"
    ELSE "$" \o ToString(((cost.n + 500) \div 1000) \div 100) \o "."
             \o SubSeq(Decimals4(((cost.n + 500) \div 1000) % 100), 3, 4)

\* cost.toFixed(4): rounds the cost to 1/10000 of a dollar
toFixed4(n) ==
    LET r == (n + 5) \div 10
    IN  ToString(r \div 10000) \o "." \o Decimals4(r % 10000)

formatCost(cost) ==
    IF ~Present(cost) THEN "N/A" ELSE "$" \o toFixed4(cost.n)

truncateText(txt, maxLength) ==
    IF ~Truthy(txt) THEN ""
    ELSE LET s == IF txt.t # "str" THEN JSONstringify(txt) ELSE txt.s
         IN  IF Len(s) <= maxLength THEN s
             ELSE SubSeq(s, 1, maxLength - 3) \o "..."

----------------------------------------------------------------------------
(* Report renderer *)

\* a step cost picked with || instead of the null checks
StepCostTruthy(stepResult) ==
    LET cost == Or(Or(stepResult.total_cost, stepResult.totalCost), Num(0))
    IN  cost.n

\* the ternary of calculateTotalCost that picks one step's cost
StepCost(stepResult) ==
    IF Present(stepResult.total_cost) THEN stepResult.total_cost.n
    ELSE IF Present(stepResult.totalCost) THEN stepResult.totalCost.n
    ELSE 0

\* inner loop of calculateTotalCost: for (const stepResult of stepResults)
RECURSIVE AddSteps(_, _)
AddSteps(stepResults, totalCost) ==
    IF stepResults = <<>> THEN totalCost
    ELSE AddSteps(Tail(stepResults), totalCost + StepCost(Head(stepResults)))

\* outer loop of calculateTotalCost: for (const recordId in results_by_record)
RECURSIVE AddRecords(_, _)
AddRecords(entries, totalCost) ==
    IF entries = <<>> THEN totalCost
    ELSE AddRecords(Tail(entries), AddSteps(Head(entries).steps, totalCost))

calculateTotalCost(rs) ==
    IF ~Truthy(rs.results_by_record) THEN 0
    ELSE AddRecords(rs.results_by_record.entries, 0)

\* detailedResultsMap[batchId] is set
HasResults(map, batchId) == Template(batchId) \in DOMAIN map

\* the cost cell of a summary row
CostCell(b, map) ==
    LET batchId == Or(b.batch_execution_id, b.batchExecutionId)
        totalCost == IF HasResults(map, batchId)
                     THEN calculateTotalCost(map[Template(batchId)])
                     ELSE 0
    IN  IF totalCost > 0 THEN formatCost(Num(totalCost)) ELSE "N/A"

\* one row of generateSummaryTable, as its cells
SummaryRow(b, map) ==
    [evalName |-> Template(Or(Or(b.eval_name, b.evalName), Str("N/A"))),
     totalRecords |-> Template(Or(Or(b.total_records, b.totalRecords), Num(0))),
     processedRecords |->
         Template(Or(Or(b.processed_records, b.processedRecords), Num(0))),
     failedRecords |-> Template(Or(Or(b.failed_records, b.failedRecords), Num(0))),
     status |-> Template(b.status),
     cost |-> CostCell(b, map)]

\* the batch rows of generateSummaryTable, in order
generateSummaryTable(batches, map) ==
    [i \in 1..Len(batches) |-> SummaryRow(batches[i], map)]

\* the output preview cell of a detail row
OutputPreview(stepResult) ==
    truncateText(Or(stepResult.output, stepResult.outputPreview), 40)

----------------------------------------------------------------------------
(* What the API server may answer *)

Statuses == {"running", "completed", "failed"}

\* a submission of the submit response, in one of the two naming conventions
RawSubmission(id, snake) ==
    [eval_name |-> IF snake THEN Str("eval-" \o id) ELSE Undef,
     evalName |-> IF snake THEN Undef ELSE Str("eval-" \o id),
     batch_execution_id |-> IF snake THEN Str(id) ELSE Undef,
     batchExecutionId |-> IF snake THEN Undef ELSE Str(id),
     status |-> Str("queued"),
     queue_name |-> IF snake THEN Str("q") ELSE Undef,
     queueName |-> IF snake THEN Undef ELSE Str("q")]

List(items) == [t |-> "list", items |-> items]

\* a submission that carries no batch id
NoIdSubmission ==
    [RawSubmission("b0", TRUE) EXCEPT !.batch_execution_id = Undef]

\* body of a successful submit response with these submissions
SubmitResponse(subs) ==
    [eval_group_id |-> Str("g1"), evalGroupId |-> Undef,
     total_evals |-> Undef, totalEvals |-> Num(1),
     submissions |-> subs]

\* bodies of a successful submit response
SubmitResponses ==
    {SubmitResponse(Undef),
     SubmitResponse(List(<<NoIdSubmission>>)),
     SubmitResponse(List(<<>>)),
     SubmitResponse(List(<<RawSubmission("b1", TRUE)>>)),
     SubmitResponse(List(<<RawSubmission("b1", FALSE)>>)),
     SubmitResponse(List(<<RawSubmission("b1", TRUE), RawSubmission("b2", TRUE)>>)),
     SubmitResponse(List(<<RawSubmission("b1", TRUE), RawSubmission("b2", FALSE)>>))}

\* a batch of the status response; bx is a batch of another job
RawBatch(id, snake, status) ==
    [batch_execution_id |-> IF snake THEN Str(id) ELSE Undef,
     batchExecutionId |-> IF snake THEN Undef ELSE Str(id),
     eval_name |-> IF snake THEN Str("eval-" \o id) ELSE Undef,
     evalName |-> IF snake THEN Undef ELSE Str("eval-" \o id),
     status |-> Str(status),
     total_records |-> IF snake THEN Num(2) ELSE Undef,
     totalRecords |-> IF snake THEN Undef ELSE Num(2),
     processed_records |-> IF snake THEN Num(IF status = "running" THEN 1 ELSE 2) ELSE Undef,
     processedRecords |-> IF snake THEN Undef ELSE Num(IF status = "running" THEN 1 ELSE 2),
     failed_records |-> IF snake THEN Num(IF status = "failed" THEN 1 ELSE 0) ELSE Undef,
     failedRecords |-> IF snake THEN Undef ELSE Num(IF status = "failed" THEN 1 ELSE 0)]

\* the batches the server may report; bx is a batch of another job, the last
\* one carries no id
ServerBatches ==
    {RawBatch("b1", TRUE, "running"), RawBatch("b1", TRUE, "completed"),
     RawBatch("b1", FALSE, "failed"),
     RawBatch("b2", TRUE, "running"), RawBatch("b2", TRUE, "completed"),
     RawBatch("bx", TRUE, "completed"),
     [RawBatch("b0", TRUE, "completed") EXCEPT !.batch_execution_id = Undef]}

SeqsUpTo(S, n) == UNION {[1..k -> S] : k \in 0..n}

\* bodies of a successful status response
StatusResponses == {[batches |-> List(bs)] : bs \in SeqsUpTo(ServerBatches, MaxBatches)}

\* a step result of a record
StepResult(total_cost, totalCost, output) ==
    [total_cost |-> total_cost, totalCost |-> totalCost,
     output |-> output, outputPreview |-> Undef]

Entries(es) == [t |-> "obj", entries |-> es]

\* body of a successful results response for a batch: the steps of b1 cost
\* nothing, those of the other batches do, one of them in camelCase
ResultsOf(batchId) ==
    IF batchId = Str("b1")
    THEN [eval_name |-> Str("eval-b1"), evalName |-> Undef,
          results_by_record |->
              Entries(<<[id |-> "r1", steps |-> <<StepResult(Num(0), Undef, Str("ok"))>>]>>)]
    ELSE [eval_name |-> Undef, evalName |-> Str("eval-" \o Template(batchId)),
          results_by_record |->
              Entries(<<[id |-> "r1", steps |-> <<StepResult(Num(1230), Undef, Str("ok")),
                                                   StepResult(Undef, Num(14), Str("ok"))>>]>>)]

----------------------------------------------------------------------------
(* main(): environment, config, submit *)

EnvValues == {Undef, Str("key")}

\* const API_KEY = process.env.TRAVRSE_API_KEY || process.env.TV_API_KEY
API_KEY == Or(TRAVRSE_API_KEY, TV_API_KEY)

\* the variables of the pure-function checks, unused by a run of main()
\* no API operation is called on its own
IdleClient ==
    /\ TRAVRSE_API_URL = Undef
    /\ API_BASE_URL = <<>>
    /\ operation = "none"
    /\ responseBody = Undef
    /\ returned = <<>>

\* no result set is rendered on its own
IdleDetail ==
    /\ resultSet = Undef
    /\ markdown = <<>>
    /\ logged = <<>>

\* no renderer function is called on its own
IdleRender ==
    /\ results = Undef
    /\ total = <<>>
    /\ step = Undef
    /\ preview = <<>>
    /\ batch = Undef
    /\ row = <<>>

IdlePure ==
    /\ IdleRender
    /\ IdleClient
    /\ IdleDetail

Init ==
    /\ TRAVRSE_API_KEY \in EnvValues
    /\ TV_API_KEY \in EnvValues
    /\ POLL_INTERVAL_MS \in 1..MaxPollInterval
    /\ MAX_WAIT_MS \in 0..MaxWait
    /\ pc = "start"
    /\ exitCode = <<>>
    /\ exitReason = "none"
    /\ now = 0
    /\ startTime = 0
    /\ submissions = <<>>
    /\ completedBatches = <<>>
    /\ fetchIdx = 0
    /\ detailedResults = <<>>
    /\ detailedResultsMap = <<>>
    /\ summaryRows = <<>>
    /\ fileContent = <<>>
    /\ displayed = <<>>
    /\ fileWrites = 0
    /\ configReads = 0
    /\ submitCalls = 0
    /\ statusCalls = 0
    /\ fetchLog = <<>>
    /\ pollErrors = 0
    /\ neverSeen = {}
    /\ IdlePure

\* process.exit(code), with the path that called it
Exit(code, reason) ==
    /\ pc' = "exited"
    /\ exitCode' = <<code>>
    /\ exitReason' = reason

\* a catch of main that logs the error and leaves the exit code alone
MainCatchNoExit(reason) == Exit(0, reason)

\* main, lines 462-468: the catch around submit, poll, fetch and report
MainCatch(reason) == Exit(1, reason)

\* a config catch that ends the process without an exit code
OnConfigErrorExitZero == Exit(0, "config")

\* main, lines 377-380: the catch around the config read and parse
OnConfigError == Exit(1, "config")

\* what reading and parsing the config file may come to: readFileSync throws
\* (missing, unreadable), JSON.parse throws (malformed), or the config loads
ConfigOutcomes == {"loaded", "unreadable", "malformed"}

\* a check that takes only null, not undefined, for a missing key
ApiKeyMissingStrictNull == API_KEY = JNull

\* if (!API_KEY)
ApiKeyMissing == ~Truthy(API_KEY)

\* main, lines 355-364: validate the API key
ValidateApiKey ==
    /\ pc = "start"
    /\ IF ApiKeyMissing
       THEN Exit(1, "apikey")
       ELSE pc' = "config" /\ UNCHANGED <<exitCode, exitReason>>
    /\ UNCHANGED <<TRAVRSE_API_KEY, TV_API_KEY, POLL_INTERVAL_MS, MAX_WAIT_MS, now,
                   startTime, submissions, completedBatches, fetchIdx,
                   detailedResults, detailedResultsMap, summaryRows, fileContent,
                   displayed, fileWrites, configReads, submitCalls, statusCalls, fetchLog,
                   pollErrors, neverSeen>>
    /\ UNCHANGED pureVars

\* main, lines 366-399: read and parse the config file, print the banner
LoadConfig ==
    /\ pc = "config"
    /\ configReads' = configReads + 1
    /\ \E outcome \in ConfigOutcomes :
          IF outcome = "loaded"
          THEN pc' = "submit" /\ UNCHANGED <<exitCode, exitReason>>
          ELSE OnConfigError
    /\ UNCHANGED <<TRAVRSE_API_KEY, TV_API_KEY, POLL_INTERVAL_MS, MAX_WAIT_MS, now,
                   startTime, submissions, completedBatches, fetchIdx,
                   detailedResults, detailedResultsMap, summaryRows, fileContent,
                   displayed, fileWrites, submitCalls, statusCalls, fetchLog,
                   pollErrors, neverSeen>>
    /\ UNCHANGED pureVars

\* submitEval, lines 130-135: one normalized submission
NormalizeSubmission(sub) ==
    [eval_name |-> Or(sub.eval_name, sub.evalName),
     batch_execution_id |-> Or(sub.batch_execution_id, sub.batchExecutionId),
     status |-> sub.status,
     queue_name |-> Or(sub.queue_name, sub.queueName)]

\* submitEval, lines 122-141: the submissions it returns
NormalizedSubmissions(response) ==
    LET subs == IF Truthy(response.submissions) THEN response.submissions.items ELSE <<>>
    IN  [i \in 1..Len(subs) |-> NormalizeSubmission(subs[i])]

\* submitEval, lines 111-142: what it returns for the body of the response
submitEval(body) ==
    [eval_group_id |-> Or(body.eval_group_id, body.evalGroupId),
     total_evals |-> Or(body.total_evals, body.totalEvals),
     submissions |-> NormalizedSubmissions(body)]

\* getEvalBatches, lines 144-147: the body of the response as it came
getEvalBatches(body) == body

\* getEvalResults, lines 149-151: the body of the response as it came
getEvalResults(body) == body

\* pollForCompletion, line 154
BatchIds(subs) == {subs[i].batch_execution_id : i \in 1..Len(subs)}

\* main, lines 401-407 and 462-468: submitEval, then startTime = Date.now() and
\* the entry into pollForCompletion; a failed request reaches the outer catch
SubmitEvalOf(mayFail, responses) ==
    /\ pc = "submit"
    /\ submitCalls' = submitCalls + 1
    /\ \/ /\ mayFail
          /\ MainCatch("submit")
          /\ UNCHANGED <<submissions, startTime, neverSeen>>
       \/ \E response \in responses :
             /\ submissions' = submitEval(response).submissions
             /\ startTime' = now
             /\ neverSeen' = BatchIds(submissions')
             /\ pc' = "pollCheck"
             /\ UNCHANGED <<exitCode, exitReason>>
    /\ UNCHANGED <<TRAVRSE_API_KEY, TV_API_KEY, POLL_INTERVAL_MS, MAX_WAIT_MS, now,
                   completedBatches, fetchIdx, detailedResults, detailedResultsMap,
                   summaryRows, fileContent, displayed, fileWrites, configReads, statusCalls,
                   fetchLog, pollErrors>>
    /\ UNCHANGED pureVars

\* the submit against a server that may reject it or answer with any body
SubmitEval == SubmitEvalOf(TRUE, SubmitResponses)

----------------------------------------------------------------------------
(* main(): report, written once every result fetch is over *)

envVars == <<TRAVRSE_API_KEY, TV_API_KEY, POLL_INTERVAL_MS, MAX_WAIT_MS>>

\* main, lines 416-420: index of the first batch from i on that has an id,
\* Len(batches) + 1 when there is none
RECURSIVE NextWithId(_, _)
NextWithId(batches, i) ==
    IF i > Len(batches) THEN i
    ELSE IF Truthy(Or(batches[i].batch_execution_id, batches[i].batchExecutionId))
         THEN i
         ELSE NextWithId(batches, i + 1)

\* main, lines 454-460: print the detailed results of every fetched result
\* set and return, which ends the process with code 0
DisplayResults(detailed) ==
    /\ displayed' = detailed
    /\ Exit(0, "completed")

\* a write without its catch: the error reaches the catch of main
OnWriteErrorRethrow(detailed) ==
    /\ UNCHANGED displayed
    /\ MainCatch("write")

\* main, lines 450-452: the catch of the write only logs, main goes on
OnWriteError(detailed) == DisplayResults(detailed)

\* main, lines 430-468: render the summary and the detailed results, write the
\* output file (a failed write is only logged), print the detailed results and
\* return
Report(batches, detailed, map) ==
    /\ summaryRows' = generateSummaryTable(batches, map)
    /\ fileWrites' = fileWrites + 1
    /\ \E written \in BOOLEAN :
          IF written
          THEN /\ fileContent' = <<[summary |-> generateSummaryTable(batches, map),
                                    detailed |-> detailed]>>
               /\ DisplayResults(detailed)
          ELSE /\ fileContent' = <<>>
               /\ OnWriteError(detailed)

\* a fetch loop that rewrites the output file after every batch
ContinueFetchLoopWriteEach(batches, i, log, detailed, map) ==
    LET j == NextWithId(batches, i)
    IN  /\ fetchLog' = log \o [k \in 1..(j - i) |-> "skipped"]
        /\ fetchIdx' = j
        /\ IF j > Len(batches)
           THEN Report(batches, detailed, map)
           ELSE /\ pc' = "fetch"
                /\ fileWrites' = fileWrites + 1
                /\ fileContent' = <<[summary |-> generateSummaryTable(batches, map),
                                     detailed |-> detailed]>>
                /\ UNCHANGED <<exitCode, exitReason, summaryRows, displayed>>

\* main, lines 414-428: go on with the fetch loop at batch i: skip the batches
\* without an id, then either await the results of the next batch or, when
\* the loop is over, report
ContinueFetchLoop(batches, i, log, detailed, map) ==
    LET j == NextWithId(batches, i)
    IN  /\ fetchLog' = log \o [k \in 1..(j - i) |-> "skipped"]
        /\ fetchIdx' = j
        /\ IF j > Len(batches)
           THEN Report(batches, detailed, map)
           ELSE /\ pc' = "fetch"
                /\ UNCHANGED <<exitCode, exitReason, summaryRows, fileContent, displayed, fileWrites>>

----------------------------------------------------------------------------
(* pollForCompletion *)

\* a deadline check that already fires at elapsed = MAX_WAIT_MS
DeadlineExceededAtLimit(elapsed) == elapsed >= MAX_WAIT_MS

\* line 164: if (elapsed > MAX_WAIT_MS)
DeadlineExceeded(elapsed) == elapsed > MAX_WAIT_MS

\* pollForCompletion, lines 162-166: the deadline check that opens an
\* iteration; its throw reaches the catch of main
PollCheck ==
    /\ pc = "pollCheck"
    /\ IF DeadlineExceeded(now - startTime)
       THEN MainCatch("timeout")
       ELSE pc' = "pollCall" /\ UNCHANGED <<exitCode, exitReason>>
    /\ UNCHANGED <<envVars, now, startTime, submissions, completedBatches, fetchIdx,
                   detailedResults, detailedResultsMap, summaryRows, fileContent,
                   displayed, fileWrites, configReads, submitCalls, statusCalls, fetchLog,
                   pollErrors, neverSeen>>
    /\ UNCHANGED pureVars

\* a filter that keeps every batch of the response
OurBatchesUnfiltered(batches, batchIds) == batches

\* lines 173-176: the batches of the response that are ours
OurBatches(batches, batchIds) ==
    SelectSeq(batches,
              LAMBDA b : Or(b.batch_execution_id, b.batchExecutionId) \in batchIds)

\* a test that takes an empty list for unfinished
AllFinishedNonEmpty(ourBatches) ==
    /\ Len(ourBatches) > 0
    /\ \A i \in 1..Len(ourBatches) :
          ourBatches[i].status = Str("completed") \/ ourBatches[i].status = Str("failed")

\* lines 190-192
AllFinished(ourBatches) ==
    \A i \in 1..Len(ourBatches) :
        ourBatches[i].status = Str("completed") \/ ourBatches[i].status = Str("failed")

\* the ids a status response reports
ReportedIds(batches) ==
    {Or(batches[i].batch_execution_id, batches[i].batchExecutionId) :
        i \in 1..Len(batches)}

\* a poll iteration without its catch: the error reaches the catch of main
OnPollErrorRethrow ==
    /\ Exit(1, "poll")
    /\ UNCHANGED <<completedBatches, fetchIdx, fetchLog, summaryRows, fileContent,
                   displayed, fileWrites>>

\* lines 201-203: the catch of a poll iteration
OnPollError ==
    /\ pc' = "pollSleep"
    /\ UNCHANGED <<exitCode, exitReason, completedBatches, fetchIdx, fetchLog,
                   summaryRows, fileContent, displayed, fileWrites>>

\* lines 169-197: a status response has arrived
OnPollResponse(response) ==
    LET batches == IF Truthy(response.batches) THEN response.batches.items ELSE <<>>
        ourBatches == OurBatches(batches, BatchIds(submissions))
    IN  /\ neverSeen' = neverSeen \ ReportedIds(batches)
        /\ IF AllFinished(ourBatches)
           THEN /\ completedBatches' = ourBatches
                /\ ContinueFetchLoop(ourBatches, 1, <<>>, <<>>, <<>>)
           ELSE /\ pc' = "pollSleep"
                /\ UNCHANGED <<exitCode, exitReason, completedBatches, fetchIdx,
                               fetchLog, summaryRows, fileContent, displayed, fileWrites>>

\* pollForCompletion, lines 168-204: the status call of an iteration, which
\* takes some time and then answers or throws
PollCallOf(mayFail, responses) ==
    /\ pc = "pollCall"
    /\ statusCalls' = statusCalls + 1
    /\ \E d \in 0..MaxCallTime : now' = now + d
    /\ \/ /\ mayFail
          /\ OnPollError
          /\ pollErrors' = pollErrors + 1
          /\ UNCHANGED neverSeen
       \/ /\ \E response \in responses : OnPollResponse(getEvalBatches(response))
          /\ UNCHANGED pollErrors
    /\ UNCHANGED <<envVars, startTime, submissions, detailedResults,
                   detailedResultsMap, configReads, submitCalls>>
    /\ UNCHANGED pureVars

\* the status call against a server that may fail or answer with any body
PollCall == PollCallOf(TRUE, StatusResponses)

\* a sleep that doubles the interval
PollSleepDoubled ==
    /\ pc = "pollSleep"
    /\ pc' = "pollCheck"
    /\ now' = now + 2 * POLL_INTERVAL_MS
    /\ UNCHANGED <<envVars, exitCode, exitReason, startTime, submissions,
                   completedBatches, fetchIdx, detailedResults, detailedResultsMap,
                   summaryRows, fileContent, displayed, fileWrites, configReads,
                   submitCalls, statusCalls, fetchLog, pollErrors, neverSeen>>
    /\ UNCHANGED pureVars

\* pollForCompletion, lines 200 and 203: await sleep(POLL_INTERVAL_MS)
PollSleep ==
    /\ pc = "pollSleep"
    /\ now' = now + POLL_INTERVAL_MS
    /\ pc' = "pollCheck"
    /\ UNCHANGED <<envVars, exitCode, exitReason, startTime, submissions,
                   completedBatches, fetchIdx, detailedResults, detailedResultsMap,
                   summaryRows, fileContent, displayed, fileWrites, configReads, submitCalls,
                   statusCalls, fetchLog, pollErrors, neverSeen>>
    /\ UNCHANGED pureVars

----------------------------------------------------------------------------
(* main(): the fetch loop *)

\* detailedResultsMap[batchId] = results
SetResults(map, batchId, rs) ==
    [k \in DOMAIN map \cup {Template(batchId)} |->
        IF k = Template(batchId) THEN rs ELSE map[k]]

\* a fetch loop without its catch: the error reaches the catch of main
OnFetchErrorRethrow ==
    /\ Exit(1, "fetch")
    /\ fetchLog' = Append(fetchLog, "error")
    /\ UNCHANGED <<detailedResults, detailedResultsMap, fetchIdx, summaryRows,
                   fileContent, displayed, fileWrites>>

\* lines 424-427: the catch of one batch's fetch
OnFetchError ==
    /\ UNCHANGED <<detailedResults, detailedResultsMap>>
    /\ ContinueFetchLoop(completedBatches, fetchIdx + 1, Append(fetchLog, "error"),
                         detailedResults, detailedResultsMap)

\* lines 421-423: the results of one batch have arrived
OnFetchResponse(rs) ==
    LET b == completedBatches[fetchIdx]
        batchId == Or(b.batch_execution_id, b.batchExecutionId)
    IN  /\ detailedResults' = Append(detailedResults, rs)
        /\ detailedResultsMap' = SetResults(detailedResultsMap, batchId, rs)
        /\ ContinueFetchLoop(completedBatches, fetchIdx + 1, Append(fetchLog, "ok"),
                             detailedResults', detailedResultsMap')

\* main, lines 414-428: the result fetch of the batch the loop is at
FetchResultsOf(mayFail, responses) ==
    /\ pc = "fetch"
    /\ \/ /\ mayFail
          /\ OnFetchError
       \/ \E response \in responses : OnFetchResponse(getEvalResults(response))
    /\ UNCHANGED <<envVars, now, startTime, submissions, completedBatches,
                   configReads, submitCalls, statusCalls, pollErrors, neverSeen>>
    /\ UNCHANGED pureVars

\* the result fetch against a server that may fail or answer with the
\* results of the batch asked for
FetchResults ==
    FetchResultsOf(TRUE, {ResultsOf(Or(completedBatches[fetchIdx].batch_execution_id,
                                       completedBatches[fetchIdx].batchExecutionId))})

Next ==
    \/ ValidateApiKey
    \/ LoadConfig
    \/ SubmitEval
    \/ PollCheck
    \/ PollCall
    \/ PollSleep
    \/ FetchResults

Spec == Init /\ [][Next]_vars

----------------------------------------------------------------------------
(* Properties of a run of main() *)

Elapsed == now - startTime

Polling == pc \in {"pollCheck", "pollCall", "pollSleep"}

\* pollForCompletion has returned a batch list
Returned == pc = "fetch" \/ exitReason = "completed"

BatchIdOf(b) == Or(b.batch_execution_id, b.batchExecutionId)

ReturnedIds == {BatchIdOf(completedBatches[i]) : i \in 1..Len(completedBatches)}

Terminal(b) == b.status \in {Str("completed"), Str("failed")}

\* C1 (as claimed): once pollForCompletion has returned, the list it returned
\* holds exactly the targeted batches, each once and each completed or failed,
\* and no status call is made any more.
C1_PollReturnsExactlyTargets ==
    [][/\ Returned' =>
            /\ ReturnedIds' = BatchIds(submissions')
            /\ Len(completedBatches') = Cardinality(BatchIds(submissions'))
            /\ \A i \in 1..Len(completedBatches') : Terminal(completedBatches'[i])
       /\ Returned => statusCalls' = statusCalls]_vars

\* C2 (as claimed): while a submitted batch has been absent from every status
\* response, pollForCompletion has not returned; it polls, or has failed with
\* the timeout error.
C2_OmittedBatchNeverReturns ==
    neverSeen # {} => (Polling \/ (pc = "exited" /\ exitReason = "timeout"))

\* the status calls made so far took no time: all the time elapsed at a
\* deadline check was spent in the sleeps, one after each status call
NoCallTime == Elapsed = statusCalls * POLL_INTERVAL_MS

\* C3: a deadline check that finds elapsed > MAX_WAIT_MS raises the timeout
\* error; the error is raised only with elapsed > MAX_WAIT_MS, and when the
\* status calls took no time, with elapsed <= MAX_WAIT_MS + POLL_INTERVAL_MS.
C3_PollTimeout ==
    [][/\ (pc = "pollCheck" /\ Elapsed > MAX_WAIT_MS) =>
            (pc' = "exited" /\ exitReason' = "timeout" /\ exitCode' = <<1>>)
       /\ exitReason' = "timeout" =>
            /\ Elapsed' > MAX_WAIT_MS'
            /\ NoCallTime' => Elapsed' <= MAX_WAIT_MS' + POLL_INTERVAL_MS']_vars

\* C3 witness: the timeout raised exactly one poll interval after the deadline,
\* after several status calls that took no time
C3_Witness ==
    /\ exitReason = "timeout"
    /\ NoCallTime
    /\ statusCalls >= 2
    /\ Elapsed = MAX_WAIT_MS + POLL_INTERVAL_MS

\* C4: a status call that throws ends nothing: the iteration changes no result
\* of the run and goes to the sleep, the sleep lasts one poll interval and leads
\* to the next deadline check, and the poller fails only by the deadline.
C4_TransientPollError ==
    [][/\ pollErrors' # pollErrors =>
            /\ pc = "pollCall" /\ pc' = "pollSleep"
            /\ UNCHANGED <<exitCode, exitReason, submissions, completedBatches,
                           fetchLog, detailedResults, detailedResultsMap,
                           summaryRows, fileContent, displayed, neverSeen>>
       /\ pc = "pollSleep" =>
            (pc' = "pollCheck" /\ now' = now + POLL_INTERVAL_MS /\ exitCode' = <<>>)
       /\ (Polling /\ exitCode' = <<1>>) =>
            (pc = "pollCheck" /\ exitReason' = "timeout" /\ Elapsed > MAX_WAIT_MS)]_vars

\* C4 witness: every status call of the run threw, several times over, and the
\* run ended by the deadline only
C4_Witness ==
    /\ exitReason = "timeout"
    /\ pollErrors >= 2
    /\ pollErrors = statusCalls

NoCredential == TRAVRSE_API_KEY = Undef /\ TV_API_KEY = Undef

\* C5: with neither credential variable set, main() ends the process with code
\* 1 at its first step, having made no HTTP call and read no config file.
C5_MissingCredential ==
    (NoCredential /\ pc # "start") =>
        /\ pc = "exited" /\ exitCode = <<1>>
        /\ submitCalls = 0 /\ statusCalls = 0 /\ fetchLog = <<>>
        /\ configReads = 0

C5_Witness == NoCredential /\ pc = "exited" /\ exitReason = "apikey"

\* the fetch of batch i of the returned list
Fetched(i) == i <= Len(fetchLog) /\ fetchLog[i] = "ok"
FetchFailed(i) == i <= Len(fetchLog) /\ fetchLog[i] = "error"

\* the batches of the returned list whose fetch succeeded, in order
RECURSIVE FetchedBatches(_)
FetchedBatches(i) ==
    IF i = 0 THEN <<>>
    ELSE IF Fetched(i) THEN Append(FetchedBatches(i - 1), completedBatches[i])
         ELSE FetchedBatches(i - 1)

\* C6: a run in which the result fetch of some batch failed still fetches
\* every batch of the returned list, keeps one detailed result per successful
\* fetch and none for a failed one, renders one summary row per batch, calls
\* the write of the output file once (with those rows and those detailed
\* results) and ends with code 0.
C6_FetchFailureNonFatal ==
    ((\E i \in 1..Len(fetchLog) : FetchFailed(i)) /\ pc = "exited") =>
        /\ exitCode = <<0>>
        /\ Len(fetchLog) = Len(completedBatches)
        /\ Len(detailedResults) = Len(FetchedBatches(Len(fetchLog)))
        /\ \A k \in 1..Len(detailedResults) :
              detailedResults[k] = ResultsOf(BatchIdOf(FetchedBatches(Len(fetchLog))[k]))
        /\ Len(summaryRows) = Len(completedBatches)
        /\ fileWrites = 1
        /\ fileContent # <<>> =>
              /\ fileContent[1].detailed = detailedResults
              /\ Len(fileContent[1].summary) = Len(completedBatches)
        /\ displayed = detailedResults

\* C6 witness: the first fetch failed, the second succeeded, the file is written
C6_Witness ==
    /\ pc = "exited"
    /\ fetchLog = <<"error", "ok">>
    /\ BatchIdOf(completedBatches[1]) # BatchIdOf(completedBatches[2])
    /\ fileContent # <<>>

\* C8 (as claimed): the cost cell of a summary row is the formatted sum of the
\* step costs when a result set was fetched for the batch, also when the sum is
\* 0, and "N/A" exactly when no result set is available.
C8_SummaryCostCell ==
    exitReason = "completed" =>
        \A i \in 1..Len(completedBatches) :
            LET batchId == BatchIdOf(completedBatches[i])
            IN  summaryRows[i].cost =
                    IF HasResults(detailedResultsMap, batchId)
                    THEN formatCost(Num(calculateTotalCost(
                             detailedResultsMap[Template(batchId)])))
                    ELSE "N/A"

----------------------------------------------------------------------------
(* The renderer's functions, each applied to inputs drawn from bounded sets *)

\* main() is not running
IdleMain ==
    /\ TRAVRSE_API_KEY = Undef
    /\ TV_API_KEY = Undef
    /\ POLL_INTERVAL_MS = 1
    /\ MAX_WAIT_MS = 0
    /\ pc = "idle"
    /\ exitCode = <<>>
    /\ exitReason = "none"
    /\ now = 0
    /\ startTime = 0
    /\ submissions = <<>>
    /\ completedBatches = <<>>
    /\ fetchIdx = 0
    /\ detailedResults = <<>>
    /\ detailedResultsMap = <<>>
    /\ summaryRows = <<>>
    /\ fileContent = <<>>
    /\ displayed = <<>>
    /\ fileWrites = 0
    /\ configReads = 0
    /\ submitCalls = 0
    /\ statusCalls = 0
    /\ fetchLog = <<>>
    /\ pollErrors = 0
    /\ neverSeen = {}

\* the cost fields a step result may carry: snake_case only, camelCase with a
\* null snake_case, both with a snake_case of 0, neither
CostSteps ==
    {StepResult(Num(7), Undef, Undef),
     StepResult(JNull, Num(3), Undef),
     StepResult(Num(0), Num(5), Undef),
     StepResult(Undef, Undef, Undef)}

RecordId(i) == "r" \o ToString(i)

\* result sets: results_by_record missing, null, or a map of up to MaxRecords
\* records of up to MaxSteps steps each
CostResultSets ==
    {[eval_name |-> Str("e1"), evalName |-> Undef, results_by_record |-> m] :
        m \in {Undef, JNull}
              \cup {Entries([i \in 1..Len(ss) |-> [id |-> RecordId(i), steps |-> ss[i]]]) :
                      ss \in SeqsUpTo(SeqsUpTo(CostSteps, MaxSteps), MaxRecords)}}

\* a text of n characters
RECURSIVE TextOf(_)
TextOf(n) ==
    IF n = 0 THEN ""
    ELSE TextOf(n - 1) \o SubSeq("abcdefghij", ((n - 1) % 10) + 1, ((n - 1) % 10) + 1)

\* what the output field of a step result may hold
OutputValues ==
    {Str(TextOf(n)) : n \in 0..MaxTextLen}
    \cup {Arr([i \in 1..n |-> i]) : n \in 0..MaxArrayLen}
    \cup {Num(0), Num(7), Bool(TRUE), Bool(FALSE), Undef, JNull}

PreviewSteps ==
    {[total_cost |-> Undef, totalCost |-> Undef, output |-> o, outputPreview |-> p] :
        o \in OutputValues, p \in {Undef, Str("pv")}}

\* batches whose fields come in either naming convention, in both or in none
RowBatches ==
    {[batch_execution_id |-> Str("b1"), batchExecutionId |-> Undef,
      eval_name |-> en, evalName |-> ec, status |-> Str("completed"),
      total_records |-> tn, totalRecords |-> tc,
      processed_records |-> Num(1), processedRecords |-> Undef,
      failed_records |-> Undef, failedRecords |-> Num(1)] :
        en \in {Undef, Str(""), Str("e")}, ec \in {Undef, Str("E")},
        tn \in {Undef, JNull, Num(0), Num(2)}, tc \in {Undef, Num(0), Num(5)}}

InitRender ==
    /\ IdleMain
    /\ IdleClient
    /\ IdleDetail
    /\ total = <<>>
    /\ preview = <<>>
    /\ row = <<>>
    /\ \/ results \in CostResultSets /\ step = Undef /\ batch = Undef
       \/ results = Undef /\ step \in PreviewSteps /\ batch = Undef
       \/ results = Undef /\ step = Undef /\ batch \in RowBatches

\* calculateTotalCost(results)
CalculateTotalCost ==
    /\ results # Undef
    /\ total = <<>>
    /\ total' = <<calculateTotalCost(results)>>
    /\ UNCHANGED <<mainVars, results, truncVars, rowVars, clientVars, detailVars>>

\* generateDetailedResultsMarkdown, line 297: the output preview of a step
RenderOutputPreview ==
    /\ step # Undef
    /\ preview = <<>>
    /\ preview' = <<OutputPreview(step)>>
    /\ UNCHANGED <<mainVars, costVars, step, rowVars, clientVars, detailVars>>

\* generateSummaryTable, lines 234-249: the row of one batch, no results fetched
RenderSummaryRow ==
    /\ batch # Undef
    /\ row = <<>>
    /\ row' = <<SummaryRow(batch, <<>>)>>
    /\ UNCHANGED <<mainVars, costVars, truncVars, batch, clientVars, detailVars>>

NextRender ==
    \/ CalculateTotalCost
    \/ RenderOutputPreview
    \/ RenderSummaryRow

SpecRender == InitRender /\ [][NextRender]_vars

----------------------------------------------------------------------------
(* Properties of the renderer's functions *)

\* the value of a snake_case/camelCase field pair as the specification defines
\* it: snake_case when it is not null, else camelCase, else the default
Normalized(snake, camel, default) ==
    IF Present(snake) THEN snake ELSE IF Present(camel) THEN camel ELSE default

\* C7 (as claimed): the eval name and the record count of a summary row are
\* the snake_case values whenever these are not null, 0 and "" included, and
\* the camelCase values only when the snake_case ones are missing or null.
C7_FieldNormalization ==
    row # <<>> =>
        /\ row[1].evalName =
              Template(Normalized(batch.eval_name, batch.evalName, Str("N/A")))
        /\ row[1].totalRecords =
              Template(Normalized(batch.total_records, batch.totalRecords, Num(0)))

\* the places of the step results of a result set: <<record, step>>
StepPlaces(rs) ==
    IF ~Present(rs.results_by_record) THEN {}
    ELSE LET es == rs.results_by_record.entries
         IN  UNION {{<<r, k>> : k \in 1..Len(es[r].steps)} : r \in 1..Len(es)}

\* the sum, over a set of places, of the normalized cost of the step there
RECURSIVE SumOfCosts(_, _)
SumOfCosts(rs, places) ==
    IF places = {} THEN 0
    ELSE LET p == CHOOSE q \in places : TRUE
             stepResult == rs.results_by_record.entries[p[1]].steps[p[2]]
         IN  Normalized(stepResult.total_cost, stepResult.totalCost, Num(0)).n
             + SumOfCosts(rs, places \ {p})

\* C9: calculateTotalCost returns the sum of the costs of all step results of
\* all records, a missing or null cost counting 0; it returns 0 for an empty
\* and for an absent results map.
C9_CostAggregation ==
    total # <<>> =>
        /\ total[1] = SumOfCosts(results, StepPlaces(results))
        /\ StepPlaces(results) = {} => total[1] = 0

\* C9 witness: two records, steps with a snake_case cost, with a camelCase cost
\* behind a null, with a snake_case cost of 0 beside a camelCase one, and with
\* no cost, summed up
C9_Witness ==
    /\ total # <<>>
    /\ Present(results.results_by_record)
    /\ Len(results.results_by_record.entries) = 2
    /\ {results.results_by_record.entries[p[1]].steps[p[2]] : p \in StepPlaces(results)}
          = CostSteps
    /\ total[1] = 10

\* C10 (as claimed): the preview of an output text of at most 40 characters is
\* the text; that of a longer text is its first 37 characters and "..."; an
\* output that is not a text is serialized first; no preview exceeds 40
\* characters. (Stated for step results whose only preview source is output.)
C10_Truncation ==
    preview # <<>> =>
        /\ Len(preview[1]) <= 40
        /\ (Present(step.output) /\ ~Present(step.outputPreview)) =>
              LET s == IF step.output.t = "str" THEN step.output.s
                       ELSE JSONstringify(step.output)
              IN  preview[1] = IF Len(s) <= 40 THEN s ELSE SubSeq(s, 1, 37) \o "..."

----------------------------------------------------------------------------
(* Fatal and non-fatal errors of main() *)

\* the requests the run has sent for results, one per fetch that was answered
\* or failed
FetchCalls == Len(SelectSeq(fetchLog, LAMBDA e : e # "skipped"))

\* the write of the output file was tried and failed
WriteFailed == fileWrites = 1 /\ fileContent = <<>>

\* C11: a run whose submit fails, or whose poll passes its deadline, ends with
\* exit code 1 and takes no further step: no status call after a failed
\* submit, and in both cases no result fetch and no write of the output file
C11_FatalErrors ==
    /\ exitReason \in {"submit", "timeout"} =>
          /\ pc = "exited"
          /\ exitCode = <<1>>
          /\ fetchLog = <<>>
          /\ detailedResults = <<>>
          /\ fileWrites = 0
          /\ fileContent = <<>>
          /\ displayed = <<>>
    /\ exitReason = "submit" => submitCalls = 1 /\ statusCalls = 0
    /\ exitReason = "timeout" => submitCalls = 1 /\ Elapsed > MAX_WAIT_MS

\* the submit request has failed, and the run is over with code 1
C11_Witness ==
    /\ exitReason = "submit"
    /\ exitCode = <<1>>
    /\ submitCalls = 1
    /\ statusCalls = 0

\* C12: a failed write of the output file does not end the run: the detailed
\* results of every fetched result set are still printed, and the exit code
\* is 0
C12_WriteFailureNonFatal ==
    WriteFailed =>
        /\ pc = "exited"
        /\ exitCode = <<0>>
        /\ displayed = detailedResults
        /\ Len(displayed) = Len(SelectSeq(fetchLog, LAMBDA e : e = "ok"))

\* the write failed after two result sets were fetched, and both are printed
C12_Witness ==
    /\ WriteFailed
    /\ Len(displayed) = 2
    /\ exitCode = <<0>>

\* C13: a config file that is missing, unreadable or not JSON ends the run
\* with exit code 1 before any network call, and no output file is written
C13_ConfigError ==
    exitReason = "config" =>
        /\ pc = "exited"
        /\ exitCode = <<1>>
        /\ configReads = 1
        /\ submitCalls = 0
        /\ statusCalls = 0
        /\ fetchLog = <<>>
        /\ fileWrites = 0
        /\ fileContent = <<>>

\* the config could not be loaded, with a credential present
C13_Witness ==
    /\ exitReason = "config"
    /\ ~NoCredential
    /\ configReads = 1
    /\ exitCode = <<1>>

----------------------------------------------------------------------------
(* Order of the HTTP calls and of the write in a run of main() *)

\* the HTTP requests the run has made so far
HttpCalls == submitCalls + statusCalls + FetchCalls

HasId(b) == Truthy(BatchIdOf(b))

\* the order every step of a run keeps: one submit before anything else, status
\* calls only between the submit and the first result fetch, result fetches
\* one at a time in the order of the returned list, never more than one
\* request in a step that runs up to the next await, and one write of the
\* output file once the fetch loop is through the whole list
OrderedStep ==
    /\ submitCalls' <= 1
    /\ HttpCalls' - HttpCalls \in {0, 1}
    /\ submitCalls' # submitCalls => HttpCalls = 0
    /\ statusCalls' # statusCalls =>
          submitCalls = 1 /\ fetchLog = <<>> /\ fileWrites = 0
    /\ FetchCalls' # FetchCalls =>
          /\ statusCalls >= 1 /\ statusCalls' = statusCalls
          /\ fileWrites = 0
          /\ Len(fetchLog) = fetchIdx - 1
          /\ fetchIdx \in 1..Len(completedBatches)
          /\ HasId(completedBatches[fetchIdx])
          /\ SubSeq(fetchLog', 1, fetchIdx - 1) = fetchLog
          /\ fetchLog'[fetchIdx] \in {"ok", "error"}
          /\ fetchIdx' > fetchIdx
    /\ fileWrites' # fileWrites =>
          /\ fileWrites = 0 /\ fileWrites' = 1
          /\ statusCalls' >= 1
          /\ Len(fetchLog') = Len(completedBatches')
          /\ pc' = "exited"
    /\ fileWrites = 1 => HttpCalls' = HttpCalls

\* C14 as stated: the order above, with one result fetch for every batch of
\* the list the poller returned
C14_OneFetchPerReturnedBatch ==
    [][/\ OrderedStep
       /\ fileWrites' # fileWrites => FetchCalls' = Len(completedBatches')]_vars

\* C14, amended: the order above, with one result fetch for every returned
\* batch that carries a batch id; a returned batch without one is skipped
C14_OrderOfOperations ==
    [][/\ OrderedStep
       /\ \A i \in 1..Len(fetchLog') :
             (fetchLog'[i] = "skipped") = ~HasId(completedBatches'[i])]_vars

\* a finished run: several status calls, then the fetches of two batches in
\* order, then the one write
C14_Witness ==
    /\ exitReason = "completed"
    /\ submitCalls = 1
    /\ statusCalls >= 2
    /\ fetchLog = <<"ok", "error">>
    /\ fileWrites = 1

----------------------------------------------------------------------------
(* Pacing of the poll loop *)

\* C19: a poll iteration starts with the deadline check, and issues its status
\* call only when the elapsed time is at most MAX_WAIT_MS (equal still polls);
\* a status call that does not end the poll, because the response is not
\* terminal or because the call failed, is followed by exactly one sleep of
\* POLL_INTERVAL_MS and the next deadline check before the next status call
C19_PollPacing ==
    [][/\ pc = "pollCheck" =>
             /\ statusCalls' = statusCalls /\ now' = now
             /\ pc' = IF Elapsed > MAX_WAIT_MS THEN "exited" ELSE "pollCall"
       /\ statusCalls' # statusCalls =>
             /\ pc = "pollCall" /\ statusCalls' = statusCalls + 1
             /\ Elapsed <= MAX_WAIT_MS
             /\ pc' \in {"pollSleep", "fetch", "exited"}
             /\ pollErrors' # pollErrors => pc' = "pollSleep"
             /\ pc' = "exited" => exitReason' = "completed"
       /\ pc = "pollSleep" =>
             /\ statusCalls' = statusCalls
             /\ now' = now + POLL_INTERVAL_MS
             /\ pc' = "pollCheck"]_vars

\* a status call is about to be issued with the elapsed time equal to the
\* deadline, after an earlier call that failed and the sleep that followed
C19_Witness ==
    /\ pc = "pollCall"
    /\ Elapsed = MAX_WAIT_MS
    /\ MAX_WAIT_MS > 0
    /\ statusCalls >= 1
    /\ pollErrors >= 1

----------------------------------------------------------------------------
(* What the poller returns *)

\* a batch of the submissions' target set in a terminal status
OursAndTerminal(b) == BatchIdOf(b) \in BatchIds(submissions) /\ Terminal(b)

\* C20: every batch of the list pollForCompletion returns has a batch id of
\* the submissions' target set and the status completed or failed, so a result
\* fetch is only ever made for such a batch
C20_ReturnedBatches ==
    /\ \A i \in 1..Len(completedBatches) : OursAndTerminal(completedBatches[i])
    /\ ~Returned => completedBatches = <<>>
    /\ pc = "fetch" =>
          /\ fetchIdx \in 1..Len(completedBatches)
          /\ HasId(completedBatches[fetchIdx])
    /\ \A i \in 1..Len(fetchLog) :
          fetchLog[i] # "skipped" => OursAndTerminal(completedBatches[i])

\* the poller has returned two batches of the job, one completed and one
\* failed, and the fetch for the first is due
C20_Witness ==
    /\ pc = "fetch"
    /\ fetchIdx = 1
    /\ Len(completedBatches) = 2
    /\ completedBatches[1].status = Str("completed")
    /\ completedBatches[2].status = Str("failed")

----------------------------------------------------------------------------
(* The API client on its own: the base URL and the three operations *)

MaxUrlParts == 3   \* a base URL override ends with up to MaxUrlParts parts

\* 'https://api.travrse.ai', line 31
DefaultBaseUrl == "https://api.travrse.ai"

\* s.endsWith(suffix)
EndsWith(s, suffix) ==
    /\ Len(s) >= Len(suffix)
    /\ SubSeq(s, Len(s) - Len(suffix) + 1, Len(s)) = suffix

\* lines 35-37: if (API_BASE_URL.endsWith('/api')) API_BASE_URL = API_BASE_URL.slice(0, -4)
StripApi(s) == IF EndsWith(s, "/api") THEN SubSeq(s, 1, Len(s) - 4) ELSE s

\* line 39: API_BASE_URL.replace(/\/$/, ''), which removes one trailing slash
StripSlash(s) == IF EndsWith(s, "/") THEN SubSeq(s, 1, Len(s) - 1) ELSE s

\* lines 35-39 applied to a URL
NormalizeBaseUrl(url) == StripSlash(StripApi(url))

\* lines 31-39: the base URL the module ends up with for a value of the
\* environment variable
BaseUrlOf(env) == NormalizeBaseUrl(Or(env, Str(DefaultBaseUrl)).s)

\* the parts a base URL override may end with
UrlParts == {"/api", "/", "/x"}

RECURSIVE Concat(_)
Concat(parts) == IF parts = <<>> THEN "" ELSE Head(parts) \o Concat(Tail(parts))

\* base URL overrides: a host followed by up to MaxUrlParts parts
UrlOverrides ==
    {Str("http://h" \o Concat(parts)) : parts \in SeqsUpTo(UrlParts, MaxUrlParts)}

InitClient ==
    /\ IdleMain
    /\ IdleRender
    /\ IdleDetail
    /\ API_BASE_URL = <<>>
    /\ returned = <<>>
    /\ \/ /\ TRAVRSE_API_URL \in {Undef, Str("")} \cup UrlOverrides
          /\ operation = "none"
          /\ responseBody = Undef
       \/ /\ TRAVRSE_API_URL = Undef
          /\ \/ operation = "submitEval" /\ responseBody \in SubmitResponses
             \/ operation = "getEvalBatches" /\ responseBody \in StatusResponses
             \/ operation = "getEvalResults"
                /\ responseBody \in {ResultsOf(Str("b1")), ResultsOf(Str("b2"))}

\* lines 31-39: the module computes its base URL when it is loaded
LoadBaseUrl ==
    /\ operation = "none"
    /\ API_BASE_URL = <<>>
    /\ API_BASE_URL' = <<BaseUrlOf(TRAVRSE_API_URL)>>
    /\ UNCHANGED <<mainVars, costVars, truncVars, rowVars, detailVars,
                   TRAVRSE_API_URL, operation, responseBody, returned>>

\* submitEval returns
SubmitEvalReturns ==
    /\ operation = "submitEval"
    /\ returned = <<>>
    /\ returned' = <<submitEval(responseBody)>>
    /\ UNCHANGED <<mainVars, costVars, truncVars, rowVars, detailVars,
                   TRAVRSE_API_URL, API_BASE_URL, operation, responseBody>>

\* getEvalBatches returns
GetEvalBatchesReturns ==
    /\ operation = "getEvalBatches"
    /\ returned = <<>>
    /\ returned' = <<getEvalBatches(responseBody)>>
    /\ UNCHANGED <<mainVars, costVars, truncVars, rowVars, detailVars,
                   TRAVRSE_API_URL, API_BASE_URL, operation, responseBody>>

\* getEvalResults returns
GetEvalResultsReturns ==
    /\ operation = "getEvalResults"
    /\ returned = <<>>
    /\ returned' = <<getEvalResults(responseBody)>>
    /\ UNCHANGED <<mainVars, costVars, truncVars, rowVars, detailVars,
                   TRAVRSE_API_URL, API_BASE_URL, operation, responseBody>>

NextClient ==
    \/ LoadBaseUrl
    \/ SubmitEvalReturns
    \/ GetEvalBatchesReturns
    \/ GetEvalResultsReturns

SpecClient == InitClient /\ [][NextClient]_vars

\* C15 (as claimed): the base URL the client builds its request URLs from ends
\* neither with "/api" nor with "/", whatever the override, and normalizing it
\* again leaves it unchanged.
C15_BaseUrlNormalization ==
    API_BASE_URL # <<>> =>
        /\ ~EndsWith(API_BASE_URL[1], "/api")
        /\ ~EndsWith(API_BASE_URL[1], "/")
        /\ NormalizeBaseUrl(API_BASE_URL[1]) = API_BASE_URL[1]

\* the field names the server may use, snake_case and camelCase
FieldPairs ==
    {<<"eval_group_id", "evalGroupId">>, <<"total_evals", "totalEvals">>,
     <<"eval_name", "evalName">>, <<"batch_execution_id", "batchExecutionId">>,
     <<"queue_name", "queueName">>, <<"total_records", "totalRecords">>,
     <<"processed_records", "processedRecords">>,
     <<"failed_records", "failedRecords">>, <<"total_cost", "totalCost">>}

\* rec is the record raw in snake_case: what raw carries under either name
\* of a field, rec carries under the snake_case name, and nothing under the
\* camelCase name
InSnakeCase(raw, rec) ==
    \A pair \in FieldPairs :
        /\ pair[2] \in DOMAIN raw =>
              /\ pair[1] \in DOMAIN rec
              /\ rec[pair[1]] = Normalized(raw[pair[1]], raw[pair[2]], Undef)
        /\ pair[2] \in DOMAIN rec => rec[pair[2]] = Undef

\* the items of a list field, none when the field is missing
ItemsOf(list) == IF Truthy(list) THEN list.items ELSE <<>>

\* the step results of a result set, record after record
RECURSIVE StepsOf(_)
StepsOf(entries) ==
    IF entries = <<>> THEN <<>> ELSE Head(entries).steps \o StepsOf(Tail(entries))

\* C16 (as claimed): what each of the three API operations returns carries the
\* fields of the response, and of every submission, batch and step result in
\* it, under their snake_case names, whichever names the server used.
C16_SnakeCaseAtBoundary ==
    returned # <<>> =>
        /\ InSnakeCase(responseBody, returned[1])
        /\ operation = "submitEval" =>
              LET raw == ItemsOf(responseBody.submissions)
                  subs == returned[1].submissions
              IN  /\ Len(subs) = Len(raw)
                  /\ \A i \in 1..Len(raw) : InSnakeCase(raw[i], subs[i])
        /\ operation = "getEvalBatches" =>
              LET raw == ItemsOf(responseBody.batches)
                  batches == ItemsOf(returned[1].batches)
              IN  /\ Len(batches) = Len(raw)
                  /\ \A i \in 1..Len(raw) : InSnakeCase(raw[i], batches[i])
        /\ operation = "getEvalResults" =>
              LET raw == StepsOf(responseBody.results_by_record.entries)
                  steps == StepsOf(returned[1].results_by_record.entries)
              IN  /\ Len(steps) = Len(raw)
                  /\ \A i \in 1..Len(raw) : InSnakeCase(raw[i], steps[i])

----------------------------------------------------------------------------
(* The detailed results of a result set, as markdown and on the console *)

\* A text is a sequence of pieces; the piece NL is a newline, the other
\* pieces hold none.
NL == "\n"

\* lines.join('\n')
RECURSIVE JoinLines(_)
JoinLines(lines) ==
    IF lines = <<>> THEN <<>>
    ELSE IF Len(lines) = 1 THEN <<Head(lines)>>
    ELSE <<Head(lines), NL>> \o JoinLines(Tail(lines))

\* lines 285-299 and 328-342: the table row of a step result
DetailRow(stepResult) ==
    LET stepName == Or(Or(stepResult.step_name, stepResult.stepName), Str("N/A"))
        stepType == Or(Or(stepResult.step_type, stepResult.stepType), Str("N/A"))
        model == Or(Or(stepResult.model_used, stepResult.modelUsed), Str("N/A"))
        duration == IF Present(stepResult.duration_ms)
                    THEN Template(stepResult.duration_ms)
                    ELSE IF Present(stepResult.durationMs)
                         THEN Template(stepResult.durationMs)
                         ELSE "N/A"
        cost == IF Present(stepResult.total_cost)
                THEN formatCost(stepResult.total_cost)
                ELSE IF Present(stepResult.totalCost)
                     THEN formatCost(stepResult.totalCost)
                     ELSE "N/A"
    IN  "| " \o Template(stepName) \o " | " \o Template(stepType) \o " | "
        \o Template(model) \o " | " \o duration \o " | " \o cost \o " | "
        \o OutputPreview(stepResult) \o " |"

\* lines 276-277 and 319-320: the name a record is shown under
RecordName(entry) ==
    Template(Or(Or(entry.steps[1].record_name, entry.steps[1].recordName),
                Str(entry.id)))

\* lines 258 and 309: the name a result set is shown under
DetailEvalName(rs) == Template(Or(Or(rs.eval_name, rs.evalName), Str("Unknown")))

\* lines 262-263 and 312-313: the records of a result set, in key order
RecordEntries(rs) ==
    IF Truthy(rs.results_by_record) THEN rs.results_by_record.entries ELSE <<>>

TableHeader == "| Step Name | Step Type | Model | Duration (ms) | Cost | Output Preview |"
TableRule == "|-----------|-----------|-------|---------------|------|----------------|"

\* generateDetailedResultsMarkdown, lines 271-302: the lines pushed for a record
MarkdownRecord(entry) ==
    IF Len(entry.steps) = 0 THEN <<>>
    ELSE <<"### Record: " \o RecordName(entry), "", TableHeader, TableRule>>
         \o [k \in 1..Len(entry.steps) |-> DetailRow(entry.steps[k])]
         \o <<"">>

RECURSIVE MarkdownRecords(_)
MarkdownRecords(entries) ==
    IF entries = <<>> THEN <<>>
    ELSE MarkdownRecord(Head(entries)) \o MarkdownRecords(Tail(entries))

\* generateDetailedResultsMarkdown: the text it returns
generateDetailedResultsMarkdown(rs) ==
    LET heading == <<"## Detailed Results: " \o DetailEvalName(rs), "">>
    IN  IF RecordEntries(rs) = <<>>
        THEN JoinLines(heading \o <<"No results found.", "">>)
        ELSE JoinLines(heading \o MarkdownRecords(RecordEntries(rs)))

\* a record printed without the empty line that ends its table
DisplayRecordNoBlankLine(entry) ==
    IF Len(entry.steps) = 0 THEN <<>>
    ELSE <<<<"### Record: " \o RecordName(entry), NL>>, <<TableHeader>>, <<TableRule>>>>
         \o [k \in 1..Len(entry.steps) |-> <<DetailRow(entry.steps[k])>>]

\* displayDetailedResults, lines 314-350: the texts logged for a record
DisplayRecord(entry) ==
    IF Len(entry.steps) = 0 THEN <<>>
    ELSE <<<<"### Record: " \o RecordName(entry), NL>>, <<TableHeader>>, <<TableRule>>>>
         \o [k \in 1..Len(entry.steps) |-> <<DetailRow(entry.steps[k])>>]
         \o <<<<"">>>>

RECURSIVE DisplayRecords(_)
DisplayRecords(entries) ==
    IF entries = <<>> THEN <<>>
    ELSE DisplayRecord(Head(entries)) \o DisplayRecords(Tail(entries))

\* displayDetailedResults: the argument of each console.log call, in order
displayDetailedResults(rs) ==
    LET heading == <<<<"## Detailed Results: " \o DetailEvalName(rs), NL>>>>
    IN  IF RecordEntries(rs) = <<>>
        THEN heading \o <<<<"No results found.", NL>>>>
        ELSE heading \o DisplayRecords(RecordEntries(rs))

\* what console.log writes to standard output: each argument and a newline
RECURSIVE Stdout(_)
Stdout(args) ==
    IF args = <<>> THEN <<>> ELSE Head(args) \o <<NL>> \o Stdout(Tail(args))

\* text.split('\n'), the line being read in cur
RECURSIVE Split(_, _)
Split(text, cur) ==
    IF text = <<>> THEN <<cur>>
    ELSE IF Head(text) = NL THEN <<cur>> \o Split(Tail(text), "")
    ELSE Split(Tail(text), cur \o Head(text))

\* the lines of a string
LinesOf(text) == Split(text, "")

\* the lines a terminal shows for an output: what follows the last newline
\* is not a line yet
PrintedLines(out) ==
    LET parts == Split(out, "") IN SubSeq(parts, 1, Len(parts) - 1)

\* a step result with every field missing
NoFields ==
    [step_name |-> Undef, stepName |-> Undef, step_type |-> Undef, stepType |-> Undef,
     model_used |-> Undef, modelUsed |-> Undef, duration_ms |-> Undef,
     durationMs |-> Undef, total_cost |-> Undef, totalCost |-> Undef,
     output |-> Undef, outputPreview |-> Undef, record_name |-> Undef,
     recordName |-> Undef]

\* step results in snake_case, in camelCase with zero and null values, and
\* with no field at all
DetailSteps ==
    {[NoFields EXCEPT !.step_name = Str("fetch"), !.step_type = Str("prompt"),
                      !.model_used = Str("m1"), !.duration_ms = Num(120),
                      !.total_cost = Num(1230), !.record_name = Str("Rec A"),
                      !.output = Str(TextOf(41))],
     [NoFields EXCEPT !.stepName = Str("rank"), !.stepType = Str("tool"),
                      !.modelUsed = Str("m2"), !.duration_ms = JNull,
                      !.durationMs = Num(0), !.total_cost = JNull,
                      !.totalCost = Num(0), !.recordName = Str("Rec B"),
                      !.outputPreview = Str("pv")],
     NoFields}

\* result sets named in snake_case or not at all, whose results_by_record is
\* missing, null, or a map of up to MaxRecords records of up to MaxSteps
\* steps each, records without steps included
DetailResultSets ==
    {[eval_name |-> en, evalName |-> Undef, results_by_record |-> m] :
        en \in {Str("e1"), Undef},
        m \in {Undef, JNull}
              \cup {Entries([i \in 1..Len(ss) |-> [id |-> RecordId(i), steps |-> ss[i]]]) :
                      ss \in SeqsUpTo(SeqsUpTo(DetailSteps, MaxSteps), MaxRecords)}}

InitDetail ==
    /\ IdleMain
    /\ IdleRender
    /\ IdleClient
    /\ resultSet \in DetailResultSets
    /\ markdown = <<>>
    /\ logged = <<>>

\* main, lines 440-442: the markdown of a result set is built
GenerateDetailedResultsMarkdown ==
    /\ resultSet # Undef
    /\ markdown = <<>>
    /\ markdown' = <<generateDetailedResultsMarkdown(resultSet)>>
    /\ UNCHANGED <<mainVars, costVars, truncVars, rowVars, clientVars, resultSet, logged>>

\* main, lines 455-457: the result set is printed to the console
DisplayDetailedResults ==
    /\ resultSet # Undef
    /\ markdown # <<>>
    /\ logged = <<>>
    /\ logged' = displayDetailedResults(resultSet)
    /\ UNCHANGED <<mainVars, costVars, truncVars, rowVars, clientVars, resultSet, markdown>>

NextDetail ==
    \/ GenerateDetailedResultsMarkdown
    \/ DisplayDetailedResults

SpecDetail == InitDetail /\ [][NextDetail]_vars

\* C17: for every result set, the lines displayDetailedResults prints to the
\* console are the lines of the markdown text that
\* generateDetailedResultsMarkdown builds for it: same heading, same record
\* tables in the same order, same cells, same "No results found." case, same
\* skipping of the records without steps
C17_MarkdownAndConsoleInSync ==
    logged # <<>> => PrintedLines(Stdout(logged)) = LinesOf(markdown[1])

\* a result set of two records, the first without steps, has been rendered
\* both ways: one heading, one record table, nothing for the skipped record
C17_Witness ==
    /\ logged # <<>>
    /\ markdown # <<>>
    /\ Len(RecordEntries(resultSet)) = 2
    /\ Len(RecordEntries(resultSet)[1].steps) = 0
    /\ Len(RecordEntries(resultSet)[2].steps) = 2
    /\ Len(PrintedLines(Stdout(logged))) = 9

----------------------------------------------------------------------------
(* A run of main() against a scripted server: one batch, done at the second
   poll *)

\* the submit response: one submission, batch b1 of eval e1, queued
ScenarioSubmitResponse ==
    SubmitResponse(List(<<[RawSubmission("b1", TRUE) EXCEPT !.eval_name = Str("e1")]>>))

\* the k-th status response: b1 running at the first poll, completed after
ScenarioStatusResponse(k) ==
    [batches |->
        List(<<[RawBatch("b1", TRUE, IF k = 1 THEN "running" ELSE "completed")
                    EXCEPT !.eval_name = Str("e1")]>>)]

\* the results of b1: one record with one step that cost $0.0123
ScenarioResults ==
    [eval_name |-> Str("e1"), evalName |-> Undef,
     results_by_record |->
         Entries(<<[id |-> "r1", steps |-> <<StepResult(Num(1230), Undef, Str("ok"))>>]>>)]

ScenarioSubmit == SubmitEvalOf(FALSE, {ScenarioSubmitResponse})

ScenarioPollCall == PollCallOf(FALSE, {ScenarioStatusResponse(statusCalls + 1)})

ScenarioFetchResults == FetchResultsOf(FALSE, {ScenarioResults})

NextScenario ==
    \/ ValidateApiKey
    \/ LoadConfig
    \/ ScenarioSubmit
    \/ PollCheck
    \/ ScenarioPollCall
    \/ PollSleep
    \/ ScenarioFetchResults

SpecScenario == Init /\ [][NextScenario]_vars

\* C18: against this server a run that has its credential and its config and
\* is given the time of two polls makes exactly two status calls and one
\* result fetch, for b1, renders a summary of exactly one row with the status
\* completed and the cost $0.0123, and ends with exit code 0; a run ends
\* otherwise only for want of a credential, of a config, or of time
C18_EndToEndScenario ==
    /\ statusCalls <= 2
    /\ pc = "exited" => exitReason \in {"apikey", "config", "timeout", "completed"}
    /\ exitReason = "timeout" =>
          /\ statusCalls = 1
          /\ MAX_WAIT_MS < POLL_INTERVAL_MS + MaxCallTime
    /\ exitReason = "completed" =>
          /\ exitCode = <<0>>
          /\ submitCalls = 1
          /\ statusCalls = 2
          /\ fetchLog = <<"ok">>
          /\ BatchIdOf(completedBatches[1]) = Str("b1")
          /\ DOMAIN detailedResultsMap = {"b1"}
          /\ Len(summaryRows) = 1
          /\ summaryRows[1].evalName = "e1"
          /\ summaryRows[1].status = "completed"
          /\ summaryRows[1].cost = "$0.0123"

\* the scenario has run to its end
C18_Witness ==
    /\ exitReason = "completed"
    /\ exitCode = <<0>>
    /\ statusCalls = 2
    /\ fetchLog = <<"ok">>
    /\ summaryRows[1].cost = "$0.0123"

----------------------------------------------------------------------------
(* A job without submissions *)

\* the submit was answered, with no submissions or without the list
EmptyJob == submitCalls = 1 /\ exitReason # "submit" /\ submissions = <<>>

\* C21: when the submit response carries no submissions, the first status
\* call that succeeds makes pollForCompletion return an empty list at once,
\* with no sleep after it (a sleep only follows a status call that failed);
\* no result is fetched, the report is written with a summary of zero rows,
\* and the run ends with exit code 0
C21_EmptyJob ==
    EmptyJob =>
        /\ statusCalls - pollErrors <= 1
        /\ pc = "pollSleep" => statusCalls = pollErrors
        /\ statusCalls > pollErrors => exitReason = "completed"
        /\ pc # "fetch"
        /\ fetchLog = <<>>
        /\ completedBatches = <<>>
        /\ detailedResults = <<>>
        /\ pc = "exited" => exitReason \in {"completed", "timeout"}
        /\ exitReason = "timeout" => statusCalls = pollErrors
        /\ exitReason = "completed" =>
              /\ exitCode = <<0>>
              /\ summaryRows = <<>>
              /\ displayed = <<>>
              /\ fileWrites = 1
              /\ fileContent \in {<<>>, <<[summary |-> <<>>, detailed |-> <<>>]>>}

\* a job without submissions has ended with code 0 and a written report of
\* zero rows, on its one status call
C21_Witness ==
    /\ EmptyJob
    /\ exitReason = "completed"
    /\ exitCode = <<0>>
    /\ statusCalls = 1
    /\ pollErrors = 0
    /\ now = startTime
    /\ fileContent = <<[summary |-> <<>>, detailed |-> <<>>]>>

====
